---- MODULE Spec2Model ----
(***************************************************************************)
(* Model of the session/token lifecycle and the authenticated-request      *)
(* pipeline of dpd-local-sdk (src/src/lib/auth.ts).                        *)
(*                                                                         *)
(* Time is counted in minutes.  Text values are strings; a message that    *)
(* the code builds by concatenation is the sequence of its pieces.         *)
(***************************************************************************)
EXTENDS Integers, Sequences, FiniteSets, TLC

\* ------------------------------------------------------------------------
\* JavaScript values
\* ------------------------------------------------------------------------

\* undefined / absent property
Undef == "undefined"

\* JavaScript truthiness of an optional string property
Truthy(s) == s \notin {Undef, ""}

\* a || b on optional strings
OrElse(a, b) == IF Truthy(a) THEN a ELSE b

\* ------------------------------------------------------------------------
\* HTTP responses
\* ------------------------------------------------------------------------

Statuses == {200, 401, 500}

\* response.ok
IsOk(status) == status >= 200 /\ status <= 299

\* response.statusText
StatusText(status) ==
  CASE status = 200 -> "OK"
    [] status = 401 -> "Unauthorized"
    [] status = 500 -> "Internal Server Error"
    [] OTHER -> "Unknown"

\* error.errors: absent, an empty array, [null], or an array whose first
\* element is an object
NoDetail == [k |-> "undef", errorMessage |-> Undef, message |-> Undef, errorCode |-> Undef]

Details ==
  { [k |-> k, errorMessage |-> Undef, message |-> Undef, errorCode |-> Undef] :
      k \in {"undef", "empty", "null"} }
  \cup [k : {"one"}, errorMessage : {Undef, "DM"}, message : {Undef, "Dm"},
        errorCode : {Undef, "DC"}]

\* the error property of a parsed body: absent, an object, or an array whose
\* first element (when len = 1) carries errorMessage / errorCode
NoError ==
  [shape |-> "undef", len |-> 0, errorMessage |-> Undef, errorAction |-> Undef,
   obj |-> Undef, errorCode |-> Undef, name |-> Undef, errors |-> NoDetail]

\* error objects: those with the properties the JSON branch reads, and
\* those with the properties the label branch reads
ErrorObjects ==
  [shape : {"object"}, len : {0}, errorMessage : {Undef, "", "EM"},
   errorAction : {Undef, "EA"}, obj : {Undef, "EO"}, errorCode : {Undef},
   name : {Undef}, errors : {NoDetail}]
  \cup
  [shape : {"object"}, len : {0}, errorMessage : {Undef, "", "EM"},
   errorAction : {Undef}, obj : {Undef}, errorCode : {Undef, "EC"},
   name : {Undef, "EN"}, errors : Details]

ErrorArrays ==
  { [NoError EXCEPT !.shape = "array"] }
  \cup { [NoError EXCEPT !.shape = "array", !.len = 1, !.errorMessage = m, !.errorCode = c] :
           m \in {Undef, "EM"}, c \in {Undef, "EC"} }

Errors == {NoError} \cup ErrorObjects \cup ErrorArrays

\* the data property of a parsed body
DataShapes == {"undefined", "null", "emptyObject", "object", "number"}

\* JavaScript truthiness of the data property
DataTruthy(d) == d \in {"emptyObject", "object", "number"}

\* data && Object.keys(data).length > 0
HasData(d) == d = "object"

\* raw body: empty text, text that is not JSON, or a JSON object
Bodies ==
  { [parse |-> p, error |-> NoError, data |-> "undefined"] : p \in {"empty", "text"} }
  \cup [parse : {"json"}, error : Errors, data : DataShapes]

Responses == [status : Statuses, body : Bodies]

\* ------------------------------------------------------------------------
\* Error messages
\* ------------------------------------------------------------------------

\* an Error message: its text pieces, and the serialized object when the
\* message is JSON.stringify(error)
Msg(parts) == [parts |-> parts, ser |-> NoError]

Serialized(e) == [parts |-> <<"JSON.stringify">>, ser |-> e]

NoMsg == Msg(<< >>)

\* ------------------------------------------------------------------------
\* Response handling of authenticatedRequest (one attempt)
\* ------------------------------------------------------------------------

AcceptValues ==
  {Undef, "application/json", "text/vnd.zebra-zpl", "text/vnd.citizen-clp",
   "text/vnd.eltron-epl", "text/html"}

LabelAccepts ==
  {"text/vnd.zebra-zpl", "text/vnd.citizen-clp", "text/vnd.eltron-epl", "text/html"}

\* the request headers the pipeline inspects
NoHeaders == [Accept |-> Undef, accept |-> Undef]

HeaderSets ==
  { [Accept |-> a, accept |-> Undef] : a \in AcceptValues }
  \cup { [Accept |-> Undef, accept |-> a] : a \in AcceptValues }
  \cup { [Accept |-> "application/json", accept |-> "text/html"] }

\* headers.Accept || headers.accept
acceptHeader(headers) == OrElse(headers.Accept, headers.accept)

\* the list of label content types without text/vnd.zebra-zpl
isLabelRequestNoZpl(headers) ==
  \/ acceptHeader(headers) = "text/vnd.citizen-clp"
  \/ acceptHeader(headers) = "text/vnd.eltron-epl"
  \/ acceptHeader(headers) = "text/html"

isLabelRequest(headers) ==
  \/ acceptHeader(headers) = "text/vnd.zebra-zpl"
  \/ acceptHeader(headers) = "text/vnd.citizen-clp"
  \/ acceptHeader(headers) = "text/vnd.eltron-epl"
  \/ acceptHeader(headers) = "text/html"

\* what one attempt does with a response: return a value, throw, or take the
\* 401 branch (clear the session, wait, continue)
Return(v) == [act |-> "return", val |-> v, msg |-> NoMsg]

Throw(m) == [act |-> "throw", val |-> "none", msg |-> m]

Retry401 == [act |-> "retry401", val |-> "none", msg |-> NoMsg]

\* a property of the error value; an array has none of the named properties
Prop(e, v) == IF e.shape = "object" THEN v ELSE Undef

\* errorCode and errorMessage extracted from a JSON body of a label request
LabelErrorCode(e) ==
  IF e.shape = "array"
    THEN (IF e.len > 0 THEN OrElse(e.errorCode, "UNKNOWN") ELSE "UNKNOWN")
  ELSE IF e.shape = "object" /\ Truthy(e.errorMessage)
    THEN OrElse(e.errorCode, OrElse(e.name, "UNKNOWN"))
  ELSE IF e.shape = "object" /\ Truthy(e.name)
    THEN (IF e.errors.k = "one" THEN OrElse(e.errors.errorCode, e.name) ELSE e.name)
  ELSE "UNKNOWN"

LabelErrorMessage(e) ==
  IF e.shape = "array"
    THEN (IF e.len > 0 THEN OrElse(e.errorMessage, "Label generation failed")
                       ELSE "Label generation failed")
  ELSE IF e.shape = "object" /\ Truthy(e.errorMessage)
    THEN e.errorMessage
  ELSE IF e.shape = "object" /\ Truthy(e.name)
    THEN (IF e.errors.k = "one"
            THEN OrElse(e.errors.errorMessage, OrElse(e.errors.message, e.name))
            ELSE e.name)
  ELSE "Label generation failed"

\* reading a property of errors[0] = null raises a TypeError inside the try
LabelTypeError(e) ==
  /\ e.shape = "object"
  /\ ~Truthy(e.errorMessage)
  /\ Truthy(e.name)
  /\ e.errors.k = "null"

\* the label branch
HandleLabel(resp) ==
  LET b == resp.body
      e == b.error
  IN IF ~IsOk(resp.status)
       THEN Throw(Msg(<<"Label request failed: ", ToString(resp.status), " ",
                        StatusText(resp.status)>>))
     ELSE IF b.parse # "json"
       THEN Return("raw")
     ELSE IF e.shape # "undef" \/ b.data = "null"
       THEN (IF LabelTypeError(e)
               THEN Return("raw")
               ELSE Throw(Msg(<<"DPD API Error ", LabelErrorCode(e), ": ",
                                LabelErrorMessage(e)>>)))
     ELSE IF DataTruthy(b.data)
       THEN Return("parsed.data")
     ELSE Return("raw")

\* errorAction taken before errorMessage
JsonErrorMessageActionFirst(resp) ==
  LET e == resp.body.error
  IN IF Prop(e, e.errorAction) # Undef THEN Msg(<<e.errorAction>>)
     ELSE IF Prop(e, e.errorMessage) # Undef THEN Msg(<<e.errorMessage>>)
     ELSE IF Prop(e, e.obj) # Undef THEN Msg(<<e.obj>>)
     ELSE IF e.shape # "undef" THEN Serialized(e)
     ELSE Msg(<<"Request failed: ", StatusText(resp.status)>>)

\* message of the error thrown for a failed JSON request
JsonErrorMessage(resp) ==
  LET e == resp.body.error
  IN IF Prop(e, e.errorMessage) # Undef THEN Msg(<<e.errorMessage>>)
     ELSE IF Prop(e, e.errorAction) # Undef THEN Msg(<<e.errorAction>>)
     ELSE IF Prop(e, e.obj) # Undef THEN Msg(<<e.obj>>)
     ELSE IF e.shape # "undef" THEN Serialized(e)
     ELSE Msg(<<"Request failed: ", StatusText(resp.status)>>)

\* an error field fails the request even when data came with it
JsonFailedErrorWins(resp) ==
  LET b == resp.body
      hasError == b.parse = "json" /\ b.error.shape # "undef"
  IN ~IsOk(resp.status) \/ hasError

\* !response.ok || (hasError && !hasData), for a body that parsed (an empty
\* body parses to null)
JsonFailed(resp) ==
  LET b == resp.body
      hasData == b.parse = "json" /\ HasData(b.data)
      hasError == b.parse = "json" /\ b.error.shape # "undef"
  IN ~IsOk(resp.status) \/ (hasError /\ ~hasData)

\* the JSON branch
HandleJson(resp, retry, attempt, retryAttempts) ==
  LET b == resp.body
  IN IF b.parse = "text"
       THEN (IF ~IsOk(resp.status)
               THEN Throw(Msg(<<"raw">>))
               ELSE Throw(Msg(<<"Invalid JSON response from DPD API">>)))
     ELSE IF JsonFailed(resp)
       THEN (IF resp.status = 401 /\ retry /\ attempt < retryAttempts - 1
               THEN Retry401
               ELSE Throw(JsonErrorMessage(resp)))
     ELSE Return("parsed")

HandleResponse(headers, resp, retry, attempt, retryAttempts) ==
  IF isLabelRequest(headers)
    THEN HandleLabel(resp)
    ELSE HandleJson(resp, retry, attempt, retryAttempts)

\* ------------------------------------------------------------------------
\* Credential exchange (authenticate)
\* ------------------------------------------------------------------------

\* status 0 stands for a fetch that rejects (transport failure or timeout)
NetworkFailure ==
  [status |-> 0, parse |-> "none", error |-> "none", token |-> FALSE, expiresIn |-> 0]

AuthResponses ==
  {NetworkFailure}
  \cup [status : Statuses, parse : {"empty", "text"}, error : {"none"}, token : {FALSE},
        expiresIn : {0}]
  \cup [status : Statuses, parse : {"json"}, error : {"none", "nomsg", "EM", ""},
        token : BOOLEAN, expiresIn : {0, 30}]

\* payload.error.errorMessage is a string (possibly empty): error is "none"
\* for a payload without error field and "nomsg" for an error object without
\* errorMessage
HasErrorMessage(r) == r.error \notin {"none", "nomsg"}

\* the outcome of authenticate for one reply: a token, or the message thrown
AuthOutcome(r) ==
  IF r.status = 0
    THEN [ok |-> FALSE, msg |-> Msg(<<"fetch failed">>)]
  ELSE IF r.parse = "text"
    THEN (IF ~IsOk(r.status)
            THEN [ok |-> FALSE, msg |-> Msg(<<"Authentication failed: ", "raw">>)]
            ELSE [ok |-> FALSE, msg |-> Msg(<<"Invalid JSON response from DPD API">>)])
  ELSE IF ~IsOk(r.status)
    THEN (IF r.parse = "json" /\ HasErrorMessage(r)
            THEN [ok |-> FALSE, msg |-> Msg(<<r.error>>)]
            ELSE [ok |-> FALSE, msg |-> Msg(<<"Authentication failed: ", ToString(r.status),
                                              " ", StatusText(r.status)>>)])
  ELSE IF r.parse = "json" /\ r.error # "none"
    THEN (IF HasErrorMessage(r)
            THEN [ok |-> FALSE, msg |-> Msg(<<r.error>>)]
            ELSE [ok |-> FALSE, msg |-> Msg(<<"Authentication failed">>)])
  ELSE IF ~(r.parse = "json" /\ r.token)
    THEN [ok |-> FALSE, msg |-> Msg(<<"No GeoSession token received from DPD">>)]
  ELSE [ok |-> TRUE, msg |-> NoMsg]

\* ------------------------------------------------------------------------
\* Session validity of GeoSessionManager
\* ------------------------------------------------------------------------

\* program constants, in minutes
SessionLifetime == 90
StaleAfter == 720
DayLength == 1440

NoExpiry == -1

\* new Date(y, m, d) of a time: the midnight that starts its day
StartOfDay(t) == t - (t % DayLength)

\* a session is still served at the instant of its expiry
isSessionValidAtExpiry(present, expiry, t) ==
  IF ~present \/ expiry = NoExpiry THEN FALSE
  ELSE IF expiry < t THEN FALSE
  ELSE IF StartOfDay(expiry) = StartOfDay(t) /\ (t - (expiry - SessionLifetime)) > StaleAfter
    THEN FALSE
  ELSE TRUE

\* the day-boundary rule looks at the time of day instead of the age of the
\* session: a session that expires today is refused after noon
isSessionValidAfterNoon(present, expiry, t) ==
  IF ~present \/ expiry = NoExpiry THEN FALSE
  ELSE IF expiry <= t THEN FALSE
  ELSE IF StartOfDay(expiry) = StartOfDay(t) /\ (t - StartOfDay(t)) > StaleAfter
    THEN FALSE
  ELSE TRUE

\* isSessionValid(geoSession, expiry) evaluated at time t; present says
\* whether geoSession is a non-empty string
isSessionValid(present, expiry, t) ==
  IF ~present \/ expiry = NoExpiry THEN FALSE
  ELSE IF expiry <= t THEN FALSE
  ELSE IF StartOfDay(expiry) = StartOfDay(t) /\ (t - (expiry - SessionLifetime)) > StaleAfter
    THEN FALSE
  ELSE TRUE

\* delay before the retry that follows the failed attempt (1, 2, ...) of
\* authenticateWithRetry
Pow2(n) == 2 ^ n

\* linear instead of exponential growth
backoffDelayLinear(base, attempt) == base * attempt

backoffDelay(base, attempt) == base * Pow2(attempt - 1)

\* delay before the retry that follows the failed attempt (0, 1, ...) of
\* authenticatedRequest
RETRY_DELAY == 1000

\* doubling instead of linear growth
requestDelayDoubling(attempt) == RETRY_DELAY * Pow2(attempt)

requestDelay(attempt) == RETRY_DELAY * (attempt + 1)

\* ------------------------------------------------------------------------
\* State
\* ------------------------------------------------------------------------

MaxTime == 135
MaxTok == 3
MaxAttempts == 2
MaxRetries == 4

TickSteps == {45, 90}

Creds == {"A", "B"}

\* the credentials of a host that never switches accounts
HostCreds == {"A"}

\* a token records the credentials of the exchange that issued it; OldTok is
\* a token a persistent store kept from an earlier run
NoTok == [cred |-> "none", n |-> 0]

OldTok(c) == [cred |-> c, n |-> 0]

NoSession == [geoSession |-> NoTok, expiry |-> NoExpiry]

\* expiry of the session a persistent store may hold at start
InitExpiries == {45, 90}

BaseDelays == {1000, 2000}

\* an operation runs in a slot; the sequential host uses the slot Main only,
\* a host with two operations in flight uses both
Main == "main"

Other == "other"

Slots == {Main, Other}

Procs == {Main}

VARIABLES
  api,         \* which API the host is built on: the module functions or GeoSessionManager
  now,         \* Date.now(), in minutes
  nextTok,     \* number of tokens the server has issued
  tokenCache,  \* the module-level cache of auth.ts
  mgr,         \* fields of the GeoSessionManager: credentials, maxRetries, baseRetryDelay
  storage,     \* fields of its InMemoryGeoSessionStorage
  pc,          \* where each operation is suspended
  call,        \* arguments and local variables of each operation
  log,         \* what each operation has done since it started
  probe,       \* a response under classification
  outcome      \* what the attempt does with it

vars == <<api, now, nextTok, tokenCache, mgr, storage, pc, call, log, probe, outcome>>

\* headers of the requests the pipeline is driven with
PipeHeaders == {NoHeaders, [Accept |-> "text/html", accept |-> Undef]}

\* business replies the pipeline is driven with; status 0 is a fetch that rejects
JsonBody(e, d) == [parse |-> "json", error |-> e, data |-> d]

TextBody == [parse |-> "text", error |-> NoError, data |-> "undefined"]

ErrEM == [NoError EXCEPT !.shape = "object", !.errorMessage = "EM"]

FetchRejected == [status |-> 0, body |-> TextBody]

PipeResponses ==
  { [status |-> 200, body |-> JsonBody(NoError, "object")],
    [status |-> 200, body |-> JsonBody(ErrEM, "undefined")],
    [status |-> 200, body |-> TextBody],
    [status |-> 401, body |-> JsonBody(ErrEM, "undefined")],
    [status |-> 401, body |-> TextBody],
    [status |-> 500, body |-> JsonBody(ErrEM, "undefined")],
    FetchRejected }

\* what a body carries, as the log records it
BodyShape(b) ==
  IF b.parse # "json" THEN b.parse
  ELSE IF b.error.shape # "undef" /\ HasData(b.data) THEN "error+data"
  ELSE IF b.error.shape # "undef" THEN "error"
  ELSE IF HasData(b.data) THEN "data"
  ELSE "plain"

\* credential-exchange replies the operations are driven with
PipeAuthResponses ==
  { [status |-> 200, parse |-> "json", error |-> "none", token |-> TRUE, expiresIn |-> 0],
    [status |-> 200, parse |-> "json", error |-> "none", token |-> TRUE, expiresIn |-> 30],
    [status |-> 200, parse |-> "json", error |-> "none", token |-> FALSE, expiresIn |-> 0],
    [status |-> 401, parse |-> "json", error |-> "EM", token |-> FALSE, expiresIn |-> 0],
    NetworkFailure }

\* replies the exchanges of the manager are driven with; one failure carries
\* an empty error message
MgrAuthResponses ==
  { [status |-> 200, parse |-> "json", error |-> "none", token |-> TRUE, expiresIn |-> 0],
    [status |-> 200, parse |-> "json", error |-> "none", token |-> TRUE, expiresIn |-> 30],
    [status |-> 401, parse |-> "json", error |-> "EM", token |-> FALSE, expiresIn |-> 0],
    [status |-> 500, parse |-> "json", error |-> "", token |-> FALSE, expiresIn |-> 0],
    NetworkFailure }

\* result of an operation
NoResult == [kind |-> "none", val |-> "none", tok |-> NoTok, msg |-> NoMsg, pay |-> 0]

Value(v, n) == [kind |-> "value", val |-> v, tok |-> NoTok, msg |-> NoMsg, pay |-> n]

TokenResult(t) == [kind |-> "value", val |-> "token", tok |-> t, msg |-> NoMsg, pay |-> 0]

Raised(m) == [kind |-> "error", val |-> "none", tok |-> NoTok, msg |-> m, pay |-> 0]

NoCall ==
  [op |-> "none", cred |-> "none", headers |-> NoHeaders, retry |-> FALSE,
   retryAttempts |-> 0, force |-> FALSE, attempt |-> 0, geoSession |-> NoTok,
   lastError |-> NoMsg, res |-> NoResult]

\* events of the log
Ev(e) ==
  [e |-> e, ok |-> FALSE, tok |-> NoTok, status |-> 0, act |-> "none", ms |-> 0,
   cacheEmpty |-> FALSE, expired |-> FALSE, shape |-> "none", expiry |-> NoExpiry,
   msg |-> NoMsg]

\* the operation starts: the session it finds stored, and whether that
\* session is past its expiry (now >= expiresAt)
StartEv(sess) ==
  [Ev("start") EXCEPT !.tok = sess.geoSession,
                      !.expiry = sess.expiry,
                      !.cacheEmpty = (sess.geoSession = NoTok),
                      !.expired = (sess.geoSession # NoTok /\ now >= sess.expiry)]

\* a credential exchange and the token it issued
AuthEv(ok, t) == [Ev("auth") EXCEPT !.ok = ok, !.tok = t]

\* a credential exchange that failed, and the message authenticate threw
AuthFailEv(m) == [Ev("auth") EXCEPT !.msg = m]

\* a business call: the token it carried, the reply, what the attempt did
\* with it, and whether the cache was empty once it was handled
BizEv(t, r, act, empty) ==
  [Ev("biz") EXCEPT !.tok = t, !.status = r.status, !.shape = BodyShape(r.body),
                    !.act = act, !.cacheEmpty = empty]

DelayEv(ms) == [Ev("delay") EXCEPT !.ms = ms]

\* a stored token is served without an exchange
HitEv(t) == [Ev("hit") EXCEPT !.tok = t]

NoProbe ==
  [headers |-> NoHeaders, resp |-> FetchRejected, retry |-> FALSE, attempt |-> 0,
   retryAttempts |-> 0]

Pending == [act |-> "pending", val |-> "none", msg |-> NoMsg]

\* options?.maxRetries ?? 3
DefaultMaxRetries == 3

NoMgr == [credentials |-> "none", maxRetries |-> 0, baseRetryDelay |-> 0]

Managers == [credentials : HostCreds, maxRetries : 1..MaxRetries, baseRetryDelay : BaseDelays]

\* sessions a persistent store may hold when the manager m is constructed
InitSessions(m) ==
  {NoSession} \cup { [geoSession |-> OldTok(m.credentials), expiry |-> x] : x \in InitExpiries }

\* the state after the module is loaded and, for the manager API, after a
\* GeoSessionManager out of ms is constructed over a store that may hold a session
InitOf(ms) ==
  /\ api \in {"functions", "manager"}
  /\ now = 0
  /\ nextTok = 0
  /\ tokenCache = NoSession
  /\ IF api = "manager"
       THEN mgr \in ms /\ storage \in InitSessions(mgr)
       ELSE mgr = NoMgr /\ storage = NoSession
  /\ pc = [p \in Slots |-> "idle"]
  /\ call = [p \in Slots |-> NoCall]
  /\ log = [p \in Slots |-> << >>]
  /\ probe = NoProbe
  /\ outcome = Pending

Init == InitOf(Managers)

\* tokenCache.geoSession && tokenCache.expiry && tokenCache.expiry > new Date()
CacheValid ==
  /\ tokenCache.geoSession # NoTok
  /\ tokenCache.expiry # NoExpiry
  /\ tokenCache.expiry > now

\* only the token is dropped
clearTokenOnly == [tokenCache EXCEPT !.geoSession = NoTok]

\* clearGeoSession()
clearGeoSession == NoSession

\* the slot p moves to control point l with locals c and log lg
Goto(p, l, c, lg) ==
  /\ pc' = [pc EXCEPT ![p] = l]
  /\ call' = [call EXCEPT ![p] = c]
  /\ log' = [log EXCEPT ![p] = lg]

\* forceRefresh is ignored
CacheHitIgnoresForce(force) == CacheValid

\* a cached token is never served
CacheHitNever(force) == FALSE

\* getGeoSession(credentials, forceRefresh) up to its first suspension: a
\* valid cached token is returned, otherwise the credential exchange starts
CacheHit(force) == ~force /\ CacheValid

\* head of the retry loop of authenticatedRequest, up to the first fetch
EnterAttempt(p, c, lg) ==
  IF c.attempt >= c.retryAttempts
    THEN Goto(p, "done",
              [c EXCEPT !.res = Raised(IF c.lastError # NoMsg THEN c.lastError
                                       ELSE Msg(<<"Request failed after retries">>))],
              lg)
  ELSE IF CacheHit(c.attempt > 0)
    THEN Goto(p, "biz", [c EXCEPT !.geoSession = tokenCache.geoSession],
              Append(lg, HitEv(tokenCache.geoSession)))
  ELSE Goto(p, "auth", c, lg)

\* the retry option is not consulted
GiveUpIgnoresRetry(retry, attempt, retryAttempts) == attempt >= retryAttempts - 1

\* the loop bound is compared one attempt late
GiveUpLate(retry, attempt, retryAttempts) == ~retry \/ attempt >= retryAttempts

\* whether the catch block rethrows instead of waiting for another attempt
GiveUp(retry, attempt, retryAttempts) == ~retry \/ attempt >= retryAttempts - 1

\* a failure is answered by another credential exchange within the attempt
CatchRetriesExchange(p, c, lg, m) == Goto(p, "auth", [c EXCEPT !.lastError = m], lg)

\* the catch block of authenticatedRequest
Catch(p, c, lg, m) ==
  IF GiveUp(c.retry, c.attempt, c.retryAttempts)
    THEN Goto(p, "done", [c EXCEPT !.lastError = m, !.res = Raised(m)], lg)
    ELSE Goto(p, "delay", [c EXCEPT !.lastError = m],
              Append(lg, DelayEv(requestDelay(c.attempt))))

\* authenticatedRequest(credentials, options) is called with credentials out
\* of cs, headers out of hs, retry out of bs and retryAttempts out of ns
StartRequestOf(p, cs, hs, bs, ns) ==
  /\ api = "functions"
  /\ pc[p] = "idle"
  /\ \E cred \in cs, h \in hs, retry \in bs, n \in ns :
       EnterAttempt(p, [NoCall EXCEPT !.op = "authenticatedRequest", !.cred = cred,
                                      !.headers = h, !.retry = retry,
                                      !.retryAttempts = n],
                    <<StartEv(tokenCache)>>)
  /\ UNCHANGED <<api, now, nextTok, tokenCache, mgr, storage, probe, outcome>>

StartRequest(p) == StartRequestOf(p, HostCreds, PipeHeaders, BOOLEAN, 0..MaxAttempts)

\* getGeoSession(credentials, forceRefresh) is called by the host
StartGetGeoSessionOf(p, cs) ==
  /\ api = "functions"
  /\ pc[p] = "idle"
  /\ \E cred \in cs, force \in BOOLEAN :
       LET c == [NoCall EXCEPT !.op = "getGeoSession", !.cred = cred, !.force = force]
       IN IF CacheHit(force)
            THEN Goto(p, "done", [c EXCEPT !.res = TokenResult(tokenCache.geoSession)],
                      <<StartEv(tokenCache), HitEv(tokenCache.geoSession)>>)
            ELSE Goto(p, "auth", c, <<StartEv(tokenCache)>>)
  /\ UNCHANGED <<api, now, nextTok, tokenCache, mgr, storage, probe, outcome>>

StartGetGeoSession(p) == StartGetGeoSessionOf(p, HostCreds)

\* authenticate(credentials) is called by the host
StartAuthenticateOf(p, cs) ==
  /\ api = "functions"
  /\ pc[p] = "idle"
  /\ \E cred \in cs :
       Goto(p, "auth", [NoCall EXCEPT !.op = "authenticate", !.cred = cred],
            <<StartEv(tokenCache)>>)
  /\ UNCHANGED <<api, now, nextTok, tokenCache, mgr, storage, probe, outcome>>

StartAuthenticate(p) == StartAuthenticateOf(p, HostCreds)

\* clearGeoSession() is called by the host
HostClear(p) ==
  /\ api = "functions"
  /\ pc[p] = "idle"
  /\ tokenCache' = clearGeoSession
  /\ UNCHANGED <<api, now, nextTok, mgr, storage, pc, call, log, probe, outcome>>

\* the cache is left as it is
ResetForTestKeeps == tokenCache

\* clearGeoSession() at the head of testConnection
ResetForTest == clearGeoSession

\* testConnection(credentials) is called: the cache is cleared and the
\* credential exchange starts
StartTestConnection(p) ==
  /\ api = "functions"
  /\ pc[p] = "idle"
  /\ tokenCache' = ResetForTest
  /\ \E cred \in HostCreds :
       Goto(p, "auth", [NoCall EXCEPT !.op = "testConnection", !.cred = cred],
            <<StartEv(tokenCache)>>)
  /\ UNCHANGED <<api, now, nextTok, mgr, storage, probe, outcome>>

\* what testConnection returns: { success, message }
ConnectionResult(success, m) ==
  [NoResult EXCEPT !.kind = "value",
                   !.val = IF success THEN "success" ELSE "failure",
                   !.msg = m]

\* a failed exchange drops the cached session
FailedExchangeClears(s) == NoSession

\* what authenticate does to the cache when it throws: nothing, the cache
\* is written only after the last check
FailedExchange(s) == s

\* the partial update keeps the expiry of the session it replaces
NewSessionKeepsExpiry(t) ==
  [geoSession |-> t,
   expiry |-> IF tokenCache.expiry # NoExpiry THEN tokenCache.expiry
              ELSE now + SessionLifetime]

\* a session that is still valid is not overwritten
NewSessionFirstWins(t) ==
  IF CacheValid THEN tokenCache ELSE [geoSession |-> t, expiry |-> now + SessionLifetime]

\* session written after a successful exchange
NewSession(t) == [geoSession |-> t, expiry |-> now + SessionLifetime]

\* the reply to the credential exchange arrives: authenticate finishes, and
\* its caller continues up to the next fetch
AuthReplyOf(p, rs) ==
  /\ pc[p] = "auth"
  /\ call[p].op \in {"authenticatedRequest", "getGeoSession", "authenticate",
                     "testConnection"}
  /\ \E r \in rs :
       LET c == call[p]
           o == AuthOutcome(r)
           t == [cred |-> c.cred, n |-> nextTok + 1]
       IN IF o.ok
            THEN /\ nextTok < MaxTok
                 /\ nextTok' = nextTok + 1
                 /\ tokenCache' = NewSession(t)
                 /\ IF c.op = "authenticatedRequest"
                      THEN Goto(p, "biz", [c EXCEPT !.geoSession = t],
                                Append(log[p], AuthEv(TRUE, t)))
                    ELSE IF c.op = "testConnection"
                      THEN Goto(p, "done",
                                [c EXCEPT !.res =
                                   ConnectionResult(TRUE,
                                                    Msg(<<"Successfully connected to DPD API">>))],
                                Append(log[p], AuthEv(TRUE, t)))
                    ELSE Goto(p, "done", [c EXCEPT !.res = TokenResult(t)],
                              Append(log[p], AuthEv(TRUE, t)))
            ELSE /\ UNCHANGED nextTok
                 /\ tokenCache' = FailedExchange(tokenCache)
                 /\ IF c.op = "authenticatedRequest"
                      THEN Catch(p, c, Append(log[p], AuthEv(FALSE, NoTok)), o.msg)
                    ELSE IF c.op = "testConnection"
                      THEN Goto(p, "done", [c EXCEPT !.res = ConnectionResult(FALSE, o.msg)],
                                Append(log[p], AuthEv(FALSE, NoTok)))
                    ELSE Goto(p, "done", [c EXCEPT !.res = Raised(o.msg)],
                              Append(log[p], AuthEv(FALSE, NoTok)))
  /\ UNCHANGED <<api, now, mgr, storage, probe, outcome>>

AuthReply(p) == AuthReplyOf(p, PipeAuthResponses)

\* number of answered business calls in a log
BizCount(lg) == Cardinality({i \in 1..Len(lg) : lg[i].e = "biz"})

\* the reply to the business call arrives and the attempt handles it
BizReplyOf(p, rs) ==
  /\ pc[p] = "biz"
  /\ \E r \in rs :
       LET c == call[p]
           o == HandleResponse(c.headers, r, c.retry, c.attempt, c.retryAttempts)
           n == BizCount(log[p]) + 1
           empty == tokenCache.geoSession = NoTok
       IN IF r.status = 0
            THEN /\ UNCHANGED tokenCache
                 /\ Catch(p, c, Append(log[p], BizEv(c.geoSession, r, "throw", empty)),
                          Msg(<<"fetch failed">>))
          ELSE IF o.act = "return"
            THEN /\ UNCHANGED tokenCache
                 /\ Goto(p, "done", [c EXCEPT !.res = Value(o.val, n)],
                         Append(log[p], BizEv(c.geoSession, r, "return", empty)))
          ELSE IF o.act = "retry401"
            THEN /\ tokenCache' = clearGeoSession
                 /\ Goto(p, "delay", c,
                         Append(Append(log[p],
                                       BizEv(c.geoSession, r, "retry401",
                                             clearGeoSession.geoSession = NoTok)),
                                DelayEv(requestDelay(c.attempt))))
          ELSE /\ UNCHANGED tokenCache
               /\ Catch(p, c, Append(log[p], BizEv(c.geoSession, r, "throw", empty)),
                        o.msg)
  /\ UNCHANGED <<api, now, nextTok, mgr, storage, probe, outcome>>

BizReply(p) == BizReplyOf(p, PipeResponses)

\* the loop counter never advances
NextAttemptStuck(attempt) == attempt

\* attempt++ of the retry loop
NextAttempt(attempt) == attempt + 1

\* the backoff delay of authenticatedRequest elapses and the next attempt begins
DelayDone(p) ==
  /\ pc[p] = "delay"
  /\ call[p].op = "authenticatedRequest"
  /\ EnterAttempt(p, [call[p] EXCEPT !.attempt = NextAttempt(@)], log[p])
  /\ UNCHANGED <<api, now, nextTok, tokenCache, mgr, storage, probe, outcome>>

\* the host takes the result; the slot is free for the next operation
Complete(p) ==
  /\ pc[p] = "done"
  /\ Goto(p, "idle", NoCall, << >>)
  /\ UNCHANGED <<api, now, nextTok, tokenCache, mgr, storage, probe, outcome>>

\* time passes
Tick ==
  /\ \E d \in TickSteps : now + d <= MaxTime /\ now' = now + d
  /\ UNCHANGED <<api, nextTok, tokenCache, mgr, storage, pc, call, log, probe,
                 outcome>>

\* ------------------------------------------------------------------------
\* GeoSessionManager
\* ------------------------------------------------------------------------

\* InMemoryGeoSessionStorage.get() returns a session only when both fields are set
StoredPresent == storage.geoSession # NoTok /\ storage.expiry # NoExpiry

\* lastError?.message || "Unknown error"
LastMessage(lastError) ==
  IF lastError = NoMsg \/ lastError.parts = <<"">> THEN <<"Unknown error">>
  ELSE lastError.parts

\* the error of authenticateWithRetry, wrapped by getValidGeoSession
AcquisitionError(maxRetries, lastError) ==
  Msg(<<"Failed to get valid geo session: ", "Failed to authenticate after ",
        ToString(maxRetries), " attempts: ">>
      \o LastMessage(lastError))

\* the body of getValidGeoSession up to its first fetch: the stored session
\* is loaded and checked, and when it is not usable the first credential
\* exchange starts
GetValid(p, c, lg) ==
  IF StoredPresent /\ isSessionValid(TRUE, storage.expiry, now)
    THEN Goto(p, "done", [c EXCEPT !.res = TokenResult(storage.geoSession)],
              Append(lg, HitEv(storage.geoSession)))
  ELSE IF c.attempt <= mgr.maxRetries
    THEN Goto(p, "auth", c, lg)
  ELSE Goto(p, "done",
            [c EXCEPT !.res = Raised(AcquisitionError(mgr.maxRetries, NoMsg))], lg)

\* getValidGeoSession() is called
StartGetValid(p) ==
  /\ api = "manager"
  /\ pc[p] = "idle"
  /\ GetValid(p, [NoCall EXCEPT !.op = "getValidGeoSession", !.cred = mgr.credentials,
                                !.attempt = 1],
              <<StartEv(storage)>>)
  /\ UNCHANGED <<api, now, nextTok, tokenCache, mgr, storage, probe, outcome>>

\* InMemoryGeoSessionStorage.clear()
StorageClear == NoSession

\* refreshGeoSession() is called: the store is cleared, and the operation
\* is suspended on the await of storage.clear()
StartRefresh(p) ==
  /\ api = "manager"
  /\ pc[p] = "idle"
  /\ storage' = StorageClear
  /\ Goto(p, "cleared",
          [NoCall EXCEPT !.op = "refreshGeoSession", !.cred = mgr.credentials,
                         !.force = TRUE, !.attempt = 1],
          <<StartEv(storage)>>)
  /\ UNCHANGED <<api, now, nextTok, tokenCache, mgr, probe, outcome>>

\* refreshGeoSession resumes and calls getValidGeoSession
RefreshResume(p) ==
  /\ pc[p] = "cleared"
  /\ GetValid(p, call[p], log[p])
  /\ UNCHANGED <<api, now, nextTok, tokenCache, mgr, storage, probe, outcome>>

\* GeoSessionManager.clearGeoSession() is called
MgrClear(p) ==
  /\ api = "manager"
  /\ pc[p] = "idle"
  /\ storage' = StorageClear
  /\ UNCHANGED <<api, now, nextTok, tokenCache, mgr, pc, call, log, probe, outcome>>

\* the error of an earlier attempt is kept
LastErrorKeepsFirst(prev, m) == IF prev = NoMsg THEN m ELSE prev

\* lastError = error, in the catch block of authenticateWithRetry
LastError(prev, m) == m

\* the store is cleared when the retries are exhausted
OnExhaustedClears(s) == NoSession

\* what the failure path of getValidGeoSession does to the store: nothing
OnExhausted(s) == s

\* the reply to a credential exchange of authenticateWithRetry arrives
MgrAuthReplyOf(p, rs) ==
  /\ pc[p] = "auth"
  /\ call[p].op \in {"getValidGeoSession", "refreshGeoSession"}
  /\ \E r \in rs :
       LET c == call[p]
           o == AuthOutcome(r)
           t == [cred |-> c.cred, n |-> nextTok + 1]
           e == LastError(c.lastError, o.msg)
       IN IF o.ok
            THEN /\ nextTok < MaxTok
                 /\ nextTok' = nextTok + 1
                 /\ storage' = NewSession(t)
                 /\ Goto(p, "done", [c EXCEPT !.res = TokenResult(t)],
                         Append(log[p], AuthEv(TRUE, t)))
          ELSE IF c.attempt < mgr.maxRetries
            THEN /\ UNCHANGED <<nextTok, storage>>
                 /\ Goto(p, "delay", [c EXCEPT !.lastError = e],
                         Append(Append(log[p], AuthFailEv(o.msg)),
                                DelayEv(backoffDelay(mgr.baseRetryDelay, c.attempt))))
          ELSE /\ UNCHANGED <<nextTok>>
               /\ storage' = OnExhausted(storage)
               /\ Goto(p, "done",
                       [c EXCEPT !.lastError = e,
                                 !.res = Raised(AcquisitionError(mgr.maxRetries, e))],
                       Append(log[p], AuthFailEv(o.msg)))
  /\ UNCHANGED <<api, now, tokenCache, mgr, probe, outcome>>

MgrAuthReply(p) == MgrAuthReplyOf(p, MgrAuthResponses)

\* the backoff delay of authenticateWithRetry elapses and the next exchange starts
MgrDelayDone(p) ==
  /\ pc[p] = "delay"
  /\ call[p].op \in {"getValidGeoSession", "refreshGeoSession"}
  /\ Goto(p, "auth", [call[p] EXCEPT !.attempt = @ + 1], log[p])
  /\ UNCHANGED <<api, now, nextTok, tokenCache, mgr, storage, probe, outcome>>

Next ==
  \/ \E p \in Procs : StartRequest(p)
  \/ \E p \in Procs : StartGetGeoSession(p)
  \/ \E p \in Procs : StartAuthenticate(p)
  \/ \E p \in Procs : HostClear(p)
  \/ \E p \in Procs : AuthReply(p)
  \/ \E p \in Procs : BizReply(p)
  \/ \E p \in Procs : DelayDone(p)
  \/ \E p \in Procs : StartGetValid(p)
  \/ \E p \in Procs : StartRefresh(p)
  \/ \E p \in Procs : RefreshResume(p)
  \/ \E p \in Procs : MgrClear(p)
  \/ \E p \in Procs : MgrAuthReply(p)
  \/ \E p \in Procs : MgrDelayDone(p)
  \/ \E p \in Procs : Complete(p)
  \/ Tick

Spec == Init /\ [][Next]_vars

\* a host that only issues authenticatedRequest calls, one after another;
\* the clock stands still, so a cached session is never found expired (a
\* call that finds one expired proceeds as one that finds none); its calls
\* are followed one attempt further than those of the mixed host
InitRequests == Init /\ api = "functions"

NextRequests ==
  \/ \E p \in Procs :
       StartRequestOf(p, HostCreds, PipeHeaders, BOOLEAN, 0..(MaxAttempts + 1))
  \/ \E p \in Procs : AuthReply(p)
  \/ \E p \in Procs : BizReply(p)
  \/ \E p \in Procs : DelayDone(p)
  \/ \E p \in Procs : Complete(p)

\* every fetch is answered or times out (AbortSignal.timeout), and every
\* timer fires
Fairness ==
  \A p \in Procs :
    /\ WF_vars(AuthReply(p))
    /\ WF_vars(BizReply(p))
    /\ WF_vars(DelayDone(p))

SpecLive == InitRequests /\ [][NextRequests]_vars /\ Fairness

\* ------------------------------------------------------------------------
\* Two operations in flight
\* ------------------------------------------------------------------------

\* what the host with two slots is driven with
ConcHeaders == {NoHeaders}

ConcAttempts == {2}

ConcManagers == [credentials : HostCreds, maxRetries : {1, 2}, baseRetryDelay : {1000}]

ConcResponses ==
  { [status |-> 200, body |-> JsonBody(NoError, "object")],
    [status |-> 401, body |-> JsonBody(ErrEM, "undefined")] }

ConcAuthResponses ==
  { [status |-> 200, parse |-> "json", error |-> "none", token |-> TRUE, expiresIn |-> 0],
    NetworkFailure }

\* the two-slot host is followed up to this time
ConcHorizon == 90

InitConc == InitOf(ConcManagers)

\* time passes, up to the horizon
ConcTick == Tick /\ now' <= ConcHorizon

NextConc ==
  \/ \E p \in Slots : StartRequestOf(p, HostCreds, ConcHeaders, {TRUE}, ConcAttempts)
  \/ \E p \in Slots : StartGetGeoSessionOf(p, HostCreds)
  \/ \E p \in Slots : StartAuthenticateOf(p, HostCreds)
  \/ \E p \in Slots : HostClear(p)
  \/ \E p \in Slots : AuthReplyOf(p, ConcAuthResponses)
  \/ \E p \in Slots : BizReplyOf(p, ConcResponses)
  \/ \E p \in Slots : DelayDone(p)
  \/ \E p \in Slots : StartGetValid(p)
  \/ \E p \in Slots : StartRefresh(p)
  \/ \E p \in Slots : RefreshResume(p)
  \/ \E p \in Slots : MgrClear(p)
  \/ \E p \in Slots : MgrAuthReplyOf(p, ConcAuthResponses)
  \/ \E p \in Slots : MgrDelayDone(p)
  \/ \E p \in Slots : Complete(p)
  \/ ConcTick

SpecConc == InitConc /\ [][NextConc]_vars

\* ------------------------------------------------------------------------
\* A host that switches accounts
\* ------------------------------------------------------------------------

InitCreds == Init /\ api = "functions"

\* getGeoSession and authenticatedRequest are called with either set of
\* credentials
NextCreds ==
  \/ \E p \in Procs : StartRequestOf(p, Creds, ConcHeaders, BOOLEAN, ConcAttempts)
  \/ \E p \in Procs : StartGetGeoSessionOf(p, Creds)
  \/ \E p \in Procs : AuthReply(p)
  \/ \E p \in Procs : BizReplyOf(p, ConcResponses)
  \/ \E p \in Procs : DelayDone(p)
  \/ \E p \in Procs : Complete(p)
  \/ Tick

SpecCreds == InitCreds /\ [][NextCreds]_vars

\* ------------------------------------------------------------------------
\* The authenticator under every kind of reply
\* ------------------------------------------------------------------------

\* a host that calls authenticate, getGeoSession, testConnection and
\* getValidGeoSession, with every reply of AuthResponses
NextAuth ==
  \/ \E p \in Procs : StartAuthenticate(p)
  \/ \E p \in Procs : StartGetGeoSession(p)
  \/ \E p \in Procs : StartTestConnection(p)
  \/ \E p \in Procs : HostClear(p)
  \/ \E p \in Procs : AuthReplyOf(p, AuthResponses)
  \/ \E p \in Procs : StartGetValid(p)
  \/ \E p \in Procs : MgrAuthReplyOf(p, AuthResponses)
  \/ \E p \in Procs : MgrDelayDone(p)
  \/ \E p \in Procs : Complete(p)
  \/ Tick

SpecAuth == InitConc /\ [][NextAuth]_vars

\* ------------------------------------------------------------------------
\* Stored sessions of any age
\* ------------------------------------------------------------------------

\* a manager constructed at any half hour of two days, over a store that
\* holds a session expiring at any half hour of those days
ValidDays == 2

ValidStep == 30

ValidTimes == { k * ValidStep : k \in 0..((ValidDays * DayLength) \div ValidStep) }

InitValid ==
  /\ api = "manager"
  /\ now \in ValidTimes
  /\ nextTok = 0
  /\ tokenCache = NoSession
  /\ mgr = [credentials |-> "A", maxRetries |-> 1, baseRetryDelay |-> 2000]
  /\ storage \in {NoSession}
                 \cup { [geoSession |-> OldTok(mgr.credentials), expiry |-> x] :
                          x \in ValidTimes }
  /\ pc = [p \in Slots |-> "idle"]
  /\ call = [p \in Slots |-> NoCall]
  /\ log = [p \in Slots |-> << >>]
  /\ probe = NoProbe
  /\ outcome = Pending

NextValid ==
  \/ \E p \in Procs : StartGetValid(p)
  \/ \E p \in Procs : MgrAuthReplyOf(p, ConcAuthResponses)
  \/ \E p \in Procs : Complete(p)

SpecValid == InitValid /\ [][NextValid]_vars

\* ------------------------------------------------------------------------
\* Long runs of failures
\* ------------------------------------------------------------------------

\* a host that drives either retry loop through up to four attempts; the
\* clock stands still
SchedAttempts == 0..4

SchedResponses ==
  { [status |-> 200, body |-> JsonBody(NoError, "object")],
    [status |-> 401, body |-> JsonBody(ErrEM, "undefined")],
    FetchRejected }

NextSched ==
  \/ \E p \in Procs : StartRequestOf(p, HostCreds, PipeHeaders, BOOLEAN, SchedAttempts)
  \/ \E p \in Procs : AuthReplyOf(p, ConcAuthResponses)
  \/ \E p \in Procs : BizReplyOf(p, SchedResponses)
  \/ \E p \in Procs : DelayDone(p)
  \/ \E p \in Procs : StartGetValid(p)
  \/ \E p \in Procs : MgrAuthReplyOf(p, ConcAuthResponses)
  \/ \E p \in Procs : MgrDelayDone(p)
  \/ \E p \in Procs : Complete(p)

SpecSched == Init /\ [][NextSched]_vars

\* ------------------------------------------------------------------------
\* Classification of single responses
\* ------------------------------------------------------------------------

\* position in the retry loop: (attempt, retryAttempts)
ProbeAttempts == {<<0, 1>>, <<0, 2>>}

Probes ==
  { [headers |-> h, resp |-> r, retry |-> b, attempt |-> a[1], retryAttempts |-> a[2]] :
      h \in HeaderSets, r \in Responses, b \in BOOLEAN, a \in ProbeAttempts }

InitResp ==
  /\ api = "functions"
  /\ now = 0
  /\ nextTok = 0
  /\ tokenCache = NoSession
  /\ mgr = NoMgr
  /\ storage = NoSession
  /\ pc = [p \in Slots |-> "idle"]
  /\ call = [p \in Slots |-> NoCall]
  /\ log = [p \in Slots |-> << >>]
  /\ probe \in Probes
  /\ outcome = Pending

\* one attempt handles the response
Classify ==
  /\ outcome = Pending
  /\ outcome' = HandleResponse(probe.headers, probe.resp, probe.retry, probe.attempt,
                               probe.retryAttempts)
  /\ UNCHANGED <<api, now, nextTok, tokenCache, mgr, storage, pc, call, log, probe>>

NextResp == Classify

SpecResp == InitResp /\ [][NextResp]_vars

\* ------------------------------------------------------------------------
\* Shipment service (dpd-service.ts, shipment.ts)
\* ------------------------------------------------------------------------

LabelFormats == {"zpl", "clp", "epl", "html"}

getAcceptHeader(format) ==
  CASE format = "html" -> "text/html"
    [] format = "zpl" -> "text/vnd.zebra-zpl"
    [] format = "clp" -> "text/vnd.citizen-clp"
    [] format = "epl" -> "text/vnd.eltron-epl"
    [] OTHER -> "text/vnd.zebra-zpl"

\* the params object generateAndUploadLabel builds: { shipmentId, labelFormat };
\* it has no property named format
GenerateLabelParams(f) == [labelFormat |-> f, format |-> Undef]

\* const { shipmentId, format } = params;
\* format === "thermal" ? "text/vnd.citizen-clp" : "text/html"
contentType(params) ==
  IF params.format = "thermal" THEN "text/vnd.citizen-clp" ELSE "text/html"

\* results of the service functions; absent properties are Undef
Failure(err, code) ==
  [success |-> FALSE, error |-> err, errorCode |-> code, shipmentId |-> Undef,
   labelUrl |-> Undef, labelData |-> Undef]

Success ==
  [success |-> TRUE, error |-> Undef, errorCode |-> Undef, shipmentId |-> Undef,
   labelUrl |-> Undef, labelData |-> Undef]

\* what the shipment request yields: the pipeline throws, or returns a
\* response whose data carries some of the three identifiers
ShipmentReplies ==
  [thrown : {TRUE}, shipmentId : {FALSE}, consignmentNumber : {FALSE},
   parcelNumber : {FALSE}]
  \cup [thrown : {FALSE}, shipmentId : BOOLEAN, consignmentNumber : BOOLEAN,
        parcelNumber : BOOLEAN]

createShipment(reply) ==
  IF reply.thrown
    THEN Failure(<<"thrown">>, "SHIPMENT_CREATION_FAILED")
  ELSE IF ~reply.consignmentNumber \/ ~reply.shipmentId \/ ~reply.parcelNumber
    THEN Failure(<<"Missing required data: ",
                   IF ~reply.shipmentId THEN "shipmentId"
                   ELSE IF ~reply.consignmentNumber THEN "consignmentNumber"
                   ELSE "parcelNumber">>,
                 "INCOMPLETE_RESPONSE")
  ELSE [Success EXCEPT !.shipmentId = "id"]

\* an error object with a name and errors: [null]
ErrNullDetail ==
  [NoError EXCEPT !.shape = "object", !.name = "EN",
                  !.errors = [NoDetail EXCEPT !.k = "null"]]

\* replies to the label request
LabelReplies ==
  { r \in Responses : r.body.error \in {NoError, ErrEM, ErrNullDetail} }
  \cup {FetchRejected}

\* what authenticatedRequest yields for the reply r to its last attempt
PipelineResult(headers, r) ==
  IF r.status = 0 THEN Throw(Msg(<<"fetch failed">>))
  ELSE HandleResponse(headers, r, TRUE, 0, 1)

\* the result of generateLabel for the outcome o of the pipeline on reply r;
\* a parsed data object is taken to have no data property of its own
generateLabel(o, r) ==
  IF o.act = "throw" THEN Failure(o.msg.parts, Undef)
  ELSE IF o.val = "raw"
    THEN (IF r.body.parse = "empty"
            THEN Failure(<<"No label data received from DPD">>, Undef)
            ELSE [Success EXCEPT !.labelData = "raw"])
  ELSE IF o.val = "parsed.data"
    THEN (IF r.body.data = "number"
            THEN Success
            ELSE Failure(<<"No label data received from DPD">>, Undef))
  ELSE IF DataTruthy(r.body.data)
    THEN [Success EXCEPT !.labelData = "data"]
  ELSE Failure(<<"No label data received from DPD">>, Undef)

\* a step of the service call that has not returned yet
NotCalled == Failure(<<"not called">>, Undef)

\* arguments and locals of a service call, and whether dbAdapter.updateOrder
\* has completed
ServiceCall(op, f) ==
  [op |-> op, labelFormat |-> f, headers |-> NoHeaders, resp |-> FetchRejected,
   shipmentResult |-> NotCalled, labelResult |-> NotCalled, updated |-> FALSE]

InitService ==
  /\ api = "functions"
  /\ now = 0
  /\ nextTok = 0
  /\ tokenCache = NoSession
  /\ mgr = NoMgr
  /\ storage = NoSession
  /\ pc = [p \in Slots |-> "idle"]
  /\ call = [p \in Slots |-> NoCall]
  /\ log = [p \in Slots |-> << >>]
  /\ probe = ServiceCall("none", "html")
  /\ outcome = Pending

\* the service call returns res
ServiceReturn(c, res) ==
  /\ pc' = [pc EXCEPT ![Main] = "done"]
  /\ probe' = c
  /\ outcome' = res

\* the service call c is suspended at the control point l
ServiceAwait(c, l) ==
  /\ pc' = [pc EXCEPT ![Main] = l]
  /\ probe' = c
  /\ outcome' = Pending

\* generateLabel(credentials, params) up to its await of authenticatedRequest
CallGenerateLabel(c, params) ==
  ServiceAwait([c EXCEPT !.headers = [Accept |-> contentType(params), accept |-> Undef]],
               "label")

\* createCompleteShipment is called; it awaits createShipment
StartCreateCompleteShipment ==
  /\ pc[Main] = "idle"
  /\ \E f \in LabelFormats :
       ServiceAwait(ServiceCall("createCompleteShipment", f), "shipment")
  /\ UNCHANGED <<api, now, nextTok, tokenCache, mgr, storage, call, log>>

\* generateLabel is called, directly or through generateAndUploadLabel or
\* regenerateLabel
StartLabel ==
  /\ pc[Main] = "idle"
  /\ \E f \in LabelFormats,
        op \in {"generateAndUploadLabel", "regenerateLabel", "generateLabel"} :
       CallGenerateLabel(ServiceCall(op, f), GenerateLabelParams(f))
  /\ UNCHANGED <<api, now, nextTok, tokenCache, mgr, storage, call, log>>

\* the shipment request is answered
ShipmentReply ==
  /\ pc[Main] = "shipment"
  /\ \E reply \in ShipmentReplies :
       LET res == createShipment(reply)
           c == [probe EXCEPT !.shipmentResult = res]
       IN IF ~res.success
            THEN ServiceReturn(c, res)
            ELSE CallGenerateLabel(c, GenerateLabelParams(c.labelFormat))
  /\ UNCHANGED <<api, now, nextTok, tokenCache, mgr, storage, call, log>>

\* { ...shipmentResult, error: `Shipment created but label generation failed: ...` }
LabelFailed(shipmentResult, labelResult) ==
  [shipmentResult EXCEPT
     !.error = <<"Shipment created but label generation failed: ">>
               \o (IF labelResult.error = Undef THEN <<Undef>> ELSE labelResult.error)]

\* generateAndUploadLabel has returned labelResult to its caller
AfterLabel(c, labelResult) ==
  IF c.op # "createCompleteShipment"
    THEN ServiceReturn(c, labelResult)
  ELSE IF ~labelResult.success \/ ~Truthy(labelResult.labelUrl)
    THEN ServiceReturn(c, LabelFailed(c.shipmentResult, labelResult))
  ELSE ServiceAwait(c, "update")

\* the label request is answered
LabelReply ==
  /\ pc[Main] = "label"
  /\ \E r \in LabelReplies :
       LET res == generateLabel(PipelineResult(probe.headers, r), r)
           c == [probe EXCEPT !.resp = r, !.labelResult = res]
       IN IF c.op = "generateLabel"
            THEN ServiceReturn(c, res)
          ELSE IF ~res.success \/ ~Truthy(res.labelData)
            THEN AfterLabel(c, res)
          ELSE ServiceAwait(c, "upload")
  /\ UNCHANGED <<api, now, nextTok, tokenCache, mgr, storage, call, log>>

\* storageAdapter.uploadLabel settles: it resolves to a URL or to an empty
\* string, or it throws
UploadReply ==
  /\ pc[Main] = "upload"
  /\ \E u \in {"url", "", "throw"} :
       LET res == IF u = "throw" THEN Failure(<<"thrown">>, Undef)
                  ELSE [probe.labelResult EXCEPT !.labelUrl = u]
       IN AfterLabel([probe EXCEPT !.labelResult = res], res)
  /\ UNCHANGED <<api, now, nextTok, tokenCache, mgr, storage, call, log>>

\* dbAdapter.updateOrder settles
UpdateReply ==
  /\ pc[Main] = "update"
  /\ \E ok \in BOOLEAN :
       IF ok
         THEN ServiceReturn([probe EXCEPT !.updated = TRUE],
                            [Success EXCEPT !.labelUrl = probe.labelResult.labelUrl])
         ELSE ServiceReturn(probe,
                            Failure(<<"Shipment created but failed to update order: ",
                                      "thrown">>,
                                    "COMPLETE_SHIPMENT_FAILED"))
  /\ UNCHANGED <<api, now, nextTok, tokenCache, mgr, storage, call, log>>

\* the host takes the result of the service call
ServiceDone ==
  /\ pc[Main] = "done"
  /\ pc' = [pc EXCEPT ![Main] = "idle"]
  /\ probe' = ServiceCall("none", "html")
  /\ outcome' = Pending
  /\ UNCHANGED <<api, now, nextTok, tokenCache, mgr, storage, call, log>>

NextService ==
  \/ StartCreateCompleteShipment
  \/ StartLabel
  \/ ShipmentReply
  \/ LabelReply
  \/ UploadReply
  \/ UpdateReply
  \/ ServiceDone

SpecService == InitService /\ [][NextService]_vars

\* ------------------------------------------------------------------------
\* Properties
\* ------------------------------------------------------------------------

BizSeq(lg) == SelectSeq(lg, LAMBDA e : e.e = "biz")

AuthSeq(lg) == SelectSeq(lg, LAMBDA e : e.e = "auth")

DelaySeq(lg) == SelectSeq(lg, LAMBDA e : e.e = "delay")

HitSeq(lg) == SelectSeq(lg, LAMBDA e : e.e = "hit")

\* index of the attempt (0, 1, ...) during which event i of a pipeline log happened
AttemptOf(lg, i) == Cardinality({j \in 1..(i - 1) : lg[j].e = "delay"})

\* the Accept header of the probed request, whichever key carries it
ProbeAccept ==
  IF probe.headers.Accept \notin {Undef, ""} THEN probe.headers.Accept
  ELSE probe.headers.accept

\* C1: with retry enabled and retryAttempts >= 2, when the business call of
\* the first attempt is answered 401 and the business call of the second
\* attempt succeeds, the cached session was cleared after the 401, a
\* credential exchange issued the token the second call carried, and the
\* caller gets the payload of the second call without an error.
C1_AuthExpiryRecovery ==
  \A p \in Procs :
    LET c == call[p]
        lg == log[p]
    IN (c.op = "authenticatedRequest" /\ c.retry /\ c.retryAttempts >= 2) =>
         \A i, j \in 1..Len(lg) :
           ( /\ lg[i].e = "biz" /\ AttemptOf(lg, i) = 0 /\ lg[i].status = 401
             /\ lg[j].e = "biz" /\ AttemptOf(lg, j) = 1 /\ lg[j].act = "return" )
           => /\ lg[i].cacheEmpty
              /\ \E k \in (i + 1)..(j - 1) :
                   lg[k].e = "auth" /\ lg[k].ok /\ lg[k].tok = lg[j].tok
              /\ pc[p] = "done"
              /\ c.res.kind = "value"
              /\ c.res.pay = 2

\* the scenario of C2: no session cached at the start, every credential
\* exchange answered with a token, first business reply 401, second
\* business reply 200 with a data payload
C2_Scenario(p) ==
  LET lg == log[p]
      B == BizSeq(lg)
      A == AuthSeq(lg)
  IN /\ call[p].op = "authenticatedRequest"
     /\ Len(lg) > 0 /\ lg[1].cacheEmpty
     /\ \A k \in 1..Len(A) : A[k].ok
     /\ Len(B) >= 2
     /\ B[1].status = 401
     /\ B[2].status = 200 /\ B[2].shape = "data"

\* C2: in that scenario the call makes exactly two credential exchanges
\* (tokens T1 then T2) and exactly two business calls, the first carrying T1
\* and the second T2, and the caller receives the second call's payload.
C2_EndToEndCount ==
  \A p \in Procs :
    C2_Scenario(p) =>
      LET B == BizSeq(log[p])
          A == AuthSeq(log[p])
      IN /\ Len(A) = 2
         /\ Len(B) = 2
         /\ A[1].tok # A[2].tok
         /\ B[1].tok = A[1].tok
         /\ B[2].tok = A[2].tok
         /\ pc[p] = "done"
         /\ call[p].res.kind = "value"
         /\ call[p].res.pay = 2

C2_Witness == \E p \in Procs : C2_Scenario(p) /\ pc[p] = "done"

\* C3: getValidGeoSession never makes more than maxRetries credential
\* exchanges; the k-th wait follows the k-th failed exchange and lasts
\* baseRetryDelay * 2^(k-1); and when the stored session is unusable and
\* every exchange fails it makes exactly maxRetries exchanges and raises
\* the session-acquisition error.
C3_RetryBound ==
  \A p \in Procs :
    call[p].op = "getValidGeoSession" =>
      LET A == AuthSeq(log[p])
          D == DelaySeq(log[p])
      IN /\ Len(A) <= mgr.maxRetries
         /\ Len(D) <= Len(A)
         /\ \A k \in 1..Len(D) : ~A[k].ok /\ D[k].ms = mgr.baseRetryDelay * (2 ^ (k - 1))
         /\ ( /\ pc[p] = "done"
              /\ Len(HitSeq(log[p])) = 0
              /\ \A k \in 1..Len(A) : ~A[k].ok )
            => /\ Len(A) = mgr.maxRetries
               /\ Len(D) = mgr.maxRetries - 1
               /\ call[p].res.kind = "error"
               /\ call[p].res.msg.parts[1] = "Failed to get valid geo session: "

C3_Witness ==
  \E p \in Procs :
    /\ call[p].op = "getValidGeoSession"
    /\ pc[p] = "done"
    /\ call[p].res.kind = "error"
    /\ mgr.maxRetries = 4
    /\ Len(AuthSeq(log[p])) = 4
    /\ Len(DelaySeq(log[p])) = 3
    /\ DelaySeq(log[p])[3].ms = 4 * mgr.baseRetryDelay

\* C4: an operation that finds a stored session with now >= expiresAt never
\* serves the stored token: getGeoSession, getValidGeoSession and the first
\* attempt of authenticatedRequest start a credential exchange instead, and
\* any token they return or attach is not the stored one.
C4_HardExpiry ==
  \A p \in Procs :
    LET c == call[p]
        lg == log[p]
    IN ( /\ c.op \in {"getGeoSession", "getValidGeoSession", "authenticatedRequest"}
         /\ c.op = "authenticatedRequest" => c.retryAttempts >= 1
         /\ Len(lg) > 0 /\ lg[1].expired )
       => /\ Len(HitSeq(lg)) = 0
          /\ pc[p] = "auth" \/ Len(AuthSeq(lg)) >= 1
          /\ c.res.tok # lg[1].tok
          /\ c.geoSession # lg[1].tok
          /\ \A i \in 1..Len(lg) : lg[i].e = "biz" => lg[i].tok # lg[1].tok

\* an expired session was found by both kinds of operation, exactly at its expiry
C4_Witness ==
  \E p \in Procs :
    /\ call[p].op \in {"getGeoSession", "getValidGeoSession"}
    /\ pc[p] = "done"
    /\ log[p][1].expired
    /\ call[p].res.kind = "value"
    /\ call[p].res.tok # log[p][1].tok

\* C9: a business reply that is a terminal failure (an error indicator
\* without data and a status other than 401, or a non-success status with a
\* body that does not parse) ends the call: it raises, and no wait, exchange
\* or business call follows.
TerminalFailure(ev) ==
  /\ ev.e = "biz"
  /\ ev.status # 0
  /\ \/ ev.shape = "error" /\ ev.status # 401
     \/ ev.shape = "text" /\ ~IsOk(ev.status)

C9_TerminalNotRetried ==
  \A p \in Procs :
    call[p].op = "authenticatedRequest" =>
      \A i \in 1..Len(log[p]) :
        TerminalFailure(log[p][i]) =>
          i = Len(log[p]) /\ pc[p] = "done" /\ call[p].res.kind = "error"

\* C10: a token returned to, or attached to the business call of, a call made
\* with one credential set was issued by an exchange made with that set.
C10_SessionPerCredentials ==
  \A p \in Procs :
    call[p].op \in {"getGeoSession", "authenticatedRequest"} =>
      /\ call[p].geoSession # NoTok => call[p].geoSession.cred = call[p].cred
      /\ call[p].res.tok # NoTok => call[p].res.tok.cred = call[p].cred

\* the probed reply parsed and carries both an error field and a non-empty
\* data payload
WarningBody ==
  /\ probe.resp.body.parse = "json"
  /\ probe.resp.body.error.shape # "undef"
  /\ probe.resp.body.data = "object"

C7_LabelPassthrough ==
  ( /\ outcome # Pending
    /\ ProbeAccept \in LabelAccepts
    /\ probe.resp.status \in 200..299
    /\ probe.resp.body.parse \in {"text", "empty"} )
  => outcome = Return("raw")

C7_Witness ==
  /\ outcome = Return("raw")
  /\ ProbeAccept = "text/vnd.zebra-zpl"
  /\ probe.resp.body.parse = "text"
  /\ probe.retry

\* the message the priority order of C8 selects for an error value e
PriorityMessage(e, status) ==
  IF e.shape = "object" /\ e.errorMessage # Undef THEN <<e.errorMessage>>
  ELSE IF e.shape = "object" /\ e.errorAction # Undef THEN <<e.errorAction>>
  ELSE IF e.shape = "object" /\ e.obj # Undef THEN <<e.obj>>
  ELSE IF e.shape # "undef" THEN <<"JSON.stringify">>
  ELSE <<"Request failed: ", StatusText(status)>>

\* the attempt raised for a reply whose body is empty or parses as JSON
ErrorResponseRaised ==
  /\ outcome # Pending
  /\ outcome.act = "throw"
  /\ probe.resp.body.parse \in {"json", "empty"}

\* C8 as claimed: the message raised for an error response is the first
\* available of errorMessage, errorAction, obj, the serialized error and the
\* status text, for every request.
C8_MessagePriorityAnyRequest ==
  ErrorResponseRaised =>
    outcome.msg.parts = PriorityMessage(probe.resp.body.error, probe.resp.status)

\* C8: for a request that is not a label request, the message raised for a
\* reply whose body is empty or parses as JSON is the first available of
\* errorMessage, errorAction, obj, the serialized error, and "Request failed: "
\* followed by the status text; with both errorMessage and errorAction
\* present it is errorMessage.
C8_MessagePriority ==
  (ErrorResponseRaised /\ ProbeAccept \notin LabelAccepts) =>
    LET e == probe.resp.body.error
    IN /\ outcome.msg.parts = PriorityMessage(e, probe.resp.status)
       /\ outcome.msg.ser = (IF outcome.msg.parts = <<"JSON.stringify">> THEN e ELSE NoError)
       /\ (e.shape = "object" /\ e.errorMessage # Undef /\ e.errorAction # Undef)
            => outcome.msg.parts = <<e.errorMessage>>

C8_Witness ==
  /\ ErrorResponseRaised
  /\ ProbeAccept \notin LabelAccepts
  /\ probe.resp.body.error.errorMessage = "EM"
  /\ probe.resp.body.error.errorAction = "EA"
  /\ outcome.msg.parts = <<"EM">>

\* C11: whenever a business call of authenticatedRequest is answered with
\* HTTP 401, on any attempt and for any kind of request, the cached session
\* is cleared once the reply is handled, and nothing served from the cache
\* afterwards is the rejected token.
C11_RejectedTokenEvicted ==
  \A p \in Procs :
    call[p].op = "authenticatedRequest" =>
      \A i \in 1..Len(log[p]) :
        (log[p][i].e = "biz" /\ log[p][i].status = 401) =>
          /\ log[p][i].cacheEmpty
          /\ tokenCache.geoSession # log[p][i].tok
          /\ \A j \in (i + 1)..Len(log[p]) :
               log[p][j].e = "hit" => log[p][j].tok # log[p][i].tok

\* getValidGeoSession has failed in slot p after exhausting its exchanges
AcquisitionFailed(p) ==
  /\ call[p].op = "getValidGeoSession"
  /\ pc[p] = "done"
  /\ call[p].res.kind = "error"
  /\ Len(AuthSeq(log[p])) = mgr.maxRetries

\* C12 as claimed: when getValidGeoSession fails because all maxRetries
\* credential exchanges failed, the store holds no session afterwards,
\* whatever it held before the call.
C12_StoreClearedOnFailure ==
  \A p \in Procs :
    AcquisitionFailed(p) => (storage.geoSession = NoTok /\ storage.expiry = NoExpiry)

\* C12: when getValidGeoSession fails because all maxRetries credential
\* exchanges failed, the store holds afterwards exactly what it held before
\* the call: the failure path neither clears nor writes it.
C12_StoreKeptOnFailure ==
  \A p \in Procs :
    AcquisitionFailed(p) =>
      /\ storage.geoSession = log[p][1].tok
      /\ storage.expiry = log[p][1].expiry

\* the call failed over a store that held a session, and still holds it
C12_Witness ==
  \E p \in Procs :
    /\ AcquisitionFailed(p)
    /\ mgr.maxRetries >= 2
    /\ log[p][1].tok # NoTok
    /\ storage.geoSession = log[p][1].tok

\* the operation in slot p is a forced refresh that has returned a token
ForcedRefreshReturned(p) ==
  /\ \/ call[p].op = "refreshGeoSession"
     \/ call[p].op = "getGeoSession" /\ call[p].force
  /\ pc[p] = "done"
  /\ call[p].res.kind = "value"

\* C13: under every interleaving with other operations on the same store, a
\* forced refresh (refreshGeoSession, or getGeoSession with forceRefresh)
\* that returns has served no stored token: it made at least one credential
\* exchange, and the token it returns was issued by its own exchange.
C13_ForcedRefreshExchanges ==
  \A p \in Slots :
    ForcedRefreshReturned(p) =>
      /\ Len(HitSeq(log[p])) = 0
      /\ \E i \in 1..Len(log[p]) :
           log[p][i].e = "auth" /\ log[p][i].ok /\ log[p][i].tok = call[p].res.tok

\* the store s holds no session at all, or a token together with an expiry
Whole(s) == (s.geoSession = NoTok) <=> (s.expiry = NoExpiry)

\* a step takes the store from s to t by leaving it alone, by emptying it,
\* or by writing the token that an exchange completed in this step issued
\* together with the expiry of that exchange (its completion time plus 90
\* minutes)
WholeWrite(s, t) ==
  \/ t = s
  \/ t.geoSession = NoTok /\ t.expiry = NoExpiry
  \/ \E p \in Slots :
       /\ Len(log'[p]) = Len(log[p]) + 1
       /\ log'[p][Len(log'[p])].e = "auth"
       /\ log'[p][Len(log'[p])].ok
       /\ t.geoSession = log'[p][Len(log'[p])].tok
       /\ t.expiry = now + 90

\* C14: under any interleaving of authenticate, getGeoSession,
\* getValidGeoSession, refreshGeoSession, clearGeoSession and
\* authenticatedRequest in two slots, the module cache and the manager's
\* store always hold either no session (token and expiry both absent) or a
\* token with an expiry, and every step that changes one of them empties it
\* or writes the token and the expiry of one and the same exchange.
C14_NoCorruption ==
  /\ [](Whole(tokenCache) /\ Whole(storage))
  /\ [][WholeWrite(tokenCache, tokenCache') /\ WholeWrite(storage, storage')]_vars

\* two operations that were in flight together both wrote the store, and the
\* store holds the session of the later exchange
C14_Witness ==
  \E p, q \in Slots :
    /\ p # q
    /\ pc[p] = "done" /\ pc[q] = "done"
    /\ log[p][1].cacheEmpty /\ log[q][1].cacheEmpty
    /\ call[p].res.tok.n = 1 /\ call[q].res.tok.n = 2
    /\ tokenCache.geoSession = call[q].res.tok
    /\ now = 45 /\ tokenCache.expiry = 135

\* the session store of the API in use
Store == IF api = "manager" THEN storage ELSE tokenCache

\* slot p has finished a getValidGeoSession, or a getGeoSession without
\* forceRefresh, that found the store empty or expired when it started and
\* made a credential exchange which the server answered with a token
RefreshedByExchange(p) ==
  /\ call[p].op \in {"getGeoSession", "getValidGeoSession"}
  /\ ~call[p].force
  /\ pc[p] = "done"
  /\ log[p][1].cacheEmpty \/ log[p][1].expired
  /\ \E i \in 1..Len(log[p]) : log[p][i].e = "auth" /\ log[p][i].ok

\* C15: when two operations in flight together both refresh an empty or
\* expired store by an exchange of their own, each returns the token of its
\* own exchange (two different tokens), and the store ends holding the
\* session of the exchange that completed last.
C15_NoMutualExclusion ==
  \A p, q \in Slots :
    (p # q /\ RefreshedByExchange(p) /\ RefreshedByExchange(q)) =>
      /\ call[p].res.kind = "value" /\ call[q].res.kind = "value"
      /\ call[p].res.tok # call[q].res.tok
      /\ \E i \in 1..Len(log[p]) : log[p][i].e = "auth" /\ log[p][i].tok = call[p].res.tok
      /\ Store.geoSession =
           (IF call[p].res.tok.n > call[q].res.tok.n THEN call[p].res.tok
            ELSE call[q].res.tok)
      /\ Store.expiry # NoExpiry

\* both operations found the same expired session of an earlier run, so
\* neither had written when the other started, and both exchanged
C15_Witness ==
  \E p, q \in Slots :
    /\ p # q
    /\ RefreshedByExchange(p) /\ RefreshedByExchange(q)
    /\ log[p][1].expired /\ log[q][1].expired
    /\ log[p][1].tok = OldTok(mgr.credentials)
    /\ log[q][1].tok = OldTok(mgr.credentials)
    /\ storage.geoSession = call[q].res.tok

\* the session s is valid at time t: a token is present, t is before its
\* expiry, and it was issued (90 minutes before its expiry) at most 12
\* hours before t
ValidStored(s, t) ==
  /\ s.geoSession # NoTok
  /\ s.expiry # NoExpiry
  /\ t < s.expiry
  /\ t - (s.expiry - 90) <= 720

\* slot p starts a getValidGeoSession, or a getGeoSession without
\* forceRefresh, in this step
StartsUnforced(p) ==
  /\ pc[p] = "idle"
  /\ pc'[p] # "idle"
  /\ call'[p].op \in {"getGeoSession", "getValidGeoSession"}
  /\ ~call'[p].force

\* C16: when getValidGeoSession, or getGeoSession without forceRefresh, is
\* called while the stored session is valid, the call returns at once with
\* exactly the stored token, makes no credential exchange and leaves the
\* store unchanged.
C16_CacheHitNoEffect ==
  [][ \A p \in Procs :
        (StartsUnforced(p) /\ ValidStored(Store, now)) =>
          /\ pc'[p] = "done"
          /\ call'[p].res = TokenResult(Store.geoSession)
          /\ Len(AuthSeq(log'[p])) = 0
          /\ nextTok' = nextTok
          /\ tokenCache' = tokenCache
          /\ storage' = storage ]_vars

\* a stored token issued by an earlier call has been served from the store
C16_Witness ==
  \E p \in Procs :
    /\ call[p].op \in {"getGeoSession", "getValidGeoSession"}
    /\ pc[p] = "done"
    /\ Len(log[p]) = 2
    /\ log[p][2].e = "hit"
    /\ call[p].res.kind = "value"
    /\ call[p].res.tok = Store.geoSession
    /\ call[p].res.tok.n >= 1
    /\ now = 45

\* a credential exchange of slot p is answered with a token in this step
ExchangeSucceeds(p) ==
  /\ pc[p] = "auth"
  /\ Len(log'[p]) = Len(log[p]) + 1
  /\ log'[p][Len(log'[p])].e = "auth"
  /\ log'[p][Len(log'[p])].ok

\* C17: when a credential exchange succeeds, with no other operation in
\* flight, the store holds right afterwards exactly the token of that
\* exchange - the one handed to the caller - with an expiry of the time of
\* issuance plus 90 minutes, whatever the reply of the server carried and
\* whatever session was stored before.
C17_RefreshPersists ==
  [][ \A p \in Procs :
        ExchangeSucceeds(p) =>
          LET t == log'[p][Len(log'[p])].tok
          IN /\ Store' = [geoSession |-> t, expiry |-> now + 90]
             /\ t # Store.geoSession
             /\ call'[p].op \in {"authenticate", "getGeoSession", "getValidGeoSession",
                                 "refreshGeoSession"}
                  => (pc'[p] = "done" /\ call'[p].res = TokenResult(t))
             /\ call'[p].op = "authenticatedRequest"
                  => (pc'[p] = "biz" /\ call'[p].geoSession = t) ]_vars

\* an expired session was replaced by the session of a later exchange
C17_Witness ==
  \E p \in Procs :
    /\ call[p].op \in {"authenticate", "getGeoSession", "getValidGeoSession"}
    /\ pc[p] = "done"
    /\ log[p][1].tok # NoTok
    /\ log[p][1].expiry = 90
    /\ call[p].res.kind = "value"
    /\ call[p].res.tok # log[p][1].tok
    /\ Store = [geoSession |-> call[p].res.tok, expiry |-> 180]
    /\ now = 90

\* the credential exchanges made during the attempt in which event i of the
\* log lg happened
ExchangesOfAttempt(lg, i) ==
  {j \in 1..Len(lg) : lg[j].e = "auth" /\ AttemptOf(lg, j) = AttemptOf(lg, i)}

Failures(lg) ==
  Cardinality({i \in 1..Len(lg) :
                 \/ lg[i].e = "auth" /\ ~lg[i].ok
                 \/ lg[i].e = "biz" /\ lg[i].act \in {"throw", "retry401"}})

\* the call in slot p stays within its budget of retryAttempts attempts
WithinBudget(p) ==
  LET c == call[p]
      lg == log[p]
  IN /\ Len(BizSeq(lg)) <= c.retryAttempts
     /\ Len(AuthSeq(lg)) <= c.retryAttempts
     /\ c.attempt < c.retryAttempts
     /\ \A i, j \in 1..Len(lg) :
          (lg[i].e = lg[j].e /\ lg[i].e \in {"auth", "biz"}
             /\ AttemptOf(lg, i) = AttemptOf(lg, j)) => i = j
     /\ Failures(lg) =
          c.attempt + (IF pc[p] = "delay" \/ (pc[p] = "done" /\ c.res.kind = "error")
                         THEN 1 ELSE 0)
     /\ pc[p] = "done" => c.res.kind \in {"value", "error"}

\* C19: a call of authenticatedRequest with retryAttempts >= 1 dispatches at
\* most retryAttempts business calls and at most retryAttempts credential
\* exchanges, at most one of each per attempt; every failed attempt (401,
\* error response, failed or unanswered exchange or business call) advances
\* the attempt counter by exactly one; and, every network call being
\* answered or timing out, the call finishes with a payload or an error.
C19_BoundedTermination ==
  /\ [](\A p \in Procs :
          (call[p].op = "authenticatedRequest" /\ call[p].retryAttempts >= 1)
             => WithinBudget(p))
  /\ \A p \in Procs :
       (call[p].op = "authenticatedRequest" /\ call[p].retryAttempts >= 1)
          ~> (pc[p] = "done" /\ call[p].res.kind \in {"value", "error"})

\* a call used up its three attempts: three exchanges, three business calls
C19_Witness ==
  \E p \in Procs :
    /\ call[p].op = "authenticatedRequest"
    /\ call[p].retryAttempts = 3
    /\ pc[p] = "done"
    /\ call[p].res.kind = "error"
    /\ Len(BizSeq(log[p])) = 3
    /\ Len(AuthSeq(log[p])) = 3
    /\ Failures(log[p]) = 3

\* C20: when getValidGeoSession raises after exhausting its exchanges, the
\* error is "Failed to get valid geo session: Failed to authenticate after
\* <maxRetries> attempts: " followed by the message of the last failed
\* exchange ("Unknown error" standing in for an empty message), whatever the
\* messages of the earlier exchanges were.
C20_WrapsLastError ==
  \A p \in Procs :
    AcquisitionFailed(p) =>
      LET A == AuthSeq(log[p])
          last == A[Len(A)].msg.parts
      IN call[p].res.msg.parts =
           <<"Failed to get valid geo session: ", "Failed to authenticate after ",
             ToString(mgr.maxRetries), " attempts: ">>
           \o (IF last = <<"">> THEN <<"Unknown error">> ELSE last)

\* three exchanges failed with different messages, and the error raised
\* ends with the message of the third
C20_Witness ==
  \E p \in Procs :
    /\ AcquisitionFailed(p)
    /\ mgr.maxRetries = 3
    /\ AuthSeq(log[p])[1].msg.parts = <<"EM">>
    /\ AuthSeq(log[p])[2].msg.parts = <<"">>
    /\ AuthSeq(log[p])[3].msg.parts = <<"fetch failed">>
    /\ call[p].res.msg.parts[5] = "fetch failed"

\* C21: in both retry loops the delay before the n-th retry is
\* base * 2^(n-1): base RETRY_DELAY in authenticatedRequest and
\* baseRetryDelay in getValidGeoSession.
C21_BothLoopsExponential ==
  \A p \in Procs :
    LET D == DelaySeq(log[p])
    IN /\ call[p].op = "authenticatedRequest" =>
            \A n \in 1..Len(D) : D[n].ms = RETRY_DELAY * (2 ^ (n - 1))
       /\ call[p].op = "getValidGeoSession" =>
            \A n \in 1..Len(D) : D[n].ms = mgr.baseRetryDelay * (2 ^ (n - 1))

\* C22: createCompleteShipment returns success = true exactly when the
\* shipment was created, the label was generated and uploaded, and
\* dbAdapter.updateOrder completed; every other outcome has success = false.
C22_SuccessOnlyWhenComplete ==
  (pc[Main] = "done" /\ probe.op = "createCompleteShipment") =>
    ( outcome.success <=>
        ( /\ probe.shipmentResult.success
          /\ probe.labelResult.success
          /\ Truthy(probe.labelResult.labelUrl)
          /\ probe.updated ) )

\* C27: the label request of generateLabel carries the Accept header of the
\* label format it was called for, and the pipeline recognises that header
\* as a label request.
C27_FormatSelectsAccept ==
  pc[Main] \in {"label", "upload"} =>
    /\ probe.headers.Accept = getAcceptHeader(probe.labelFormat)
    /\ isLabelRequest(probe.headers)

\* an event that ends an attempt of authenticatedRequest in failure: an
\* exchange that failed, or a business call answered 401, answered with an
\* error, or not answered
AttemptFailed(ev) ==
  \/ ev.e = "auth" /\ ~ev.ok
  \/ ev.e = "biz" /\ ev.act \in {"throw", "retry401"}

Appended(p) == SubSeq(log'[p], Len(log[p]) + 1, Len(log'[p]))

\* C24: the reply to a credential exchange ends one invocation of
\* authenticate, of the module or of GeoSessionManager: the invocation made
\* that single exchange; when it fails, for whichever reason, the cached
\* session of the module and the stored session of the manager are what they
\* were, and a direct call of authenticate raises the failure after its one
\* exchange.
C24_OneCallCleanFailure ==
  /\ [](\A p \in Procs :
          (call[p].op = "authenticate" /\ pc[p] = "done") =>
             /\ Len(AuthSeq(log[p])) = 1
             /\ call[p].res.kind = (IF AuthSeq(log[p])[1].ok THEN "value" ELSE "error"))
  /\ [][\A p \in Procs :
          (pc[p] = "auth" /\ pc'[p] # "auth") =>
             /\ Len(AuthSeq(Appended(p))) = 1
             /\ ~AuthSeq(Appended(p))[1].ok =>
                  /\ tokenCache' = tokenCache
                  /\ storage' = storage
                  /\ nextTok' = nextTok]_vars

\* authenticate failed on a body that is not JSON, and the cache still holds
\* the session an earlier call stored
C24_Witness ==
  \E p \in Procs :
    /\ call[p].op = "authenticate"
    /\ pc[p] = "done"
    /\ call[p].res = Raised(Msg(<<"Invalid JSON response from DPD API">>))
    /\ tokenCache.geoSession # NoTok
    /\ tokenCache.expiry > now

\* C30: testConnection clears the cached session before its credential
\* exchange and makes exactly one exchange; it never raises; it returns
\* success = true exactly when the exchange yields a token, and the cache
\* then holds that token with its expiry; otherwise it returns
\* success = false with the message of the failure, and the cache is empty
\* whatever it held before the call.
C30_TestConnectionResets ==
  \A p \in Procs :
    call[p].op = "testConnection" =>
      LET A == AuthSeq(log[p])
          res == call[p].res
      IN /\ pc[p] \in {"auth", "done"}
         /\ pc[p] = "auth" => (tokenCache = NoSession /\ Len(A) = 0)
         /\ pc[p] = "done" =>
              /\ Len(A) = 1
              /\ res.kind = "value"
              /\ res.val = (IF A[1].ok THEN "success" ELSE "failure")
              /\ A[1].ok =>
                   /\ tokenCache.geoSession = A[1].tok
                   /\ tokenCache.expiry # NoExpiry
                   /\ res.msg = Msg(<<"Successfully connected to DPD API">>)
              /\ ~A[1].ok =>
                   /\ tokenCache = NoSession
                   /\ res.msg # NoMsg
                   /\ \E r \in AuthResponses : ~AuthOutcome(r).ok /\ res.msg = AuthOutcome(r).msg

\* testConnection failed after it found a valid session in the cache, and
\* the cache is empty
C30_Witness ==
  \E p \in Procs :
    /\ call[p].op = "testConnection"
    /\ pc[p] = "done"
    /\ call[p].res.val = "failure"
    /\ call[p].res.msg = Msg(<<"EM">>)
    /\ log[p][1].tok # NoTok
    /\ ~log[p][1].expired
    /\ tokenCache = NoSession

\* C25: a label request answered with a success status and a JSON body that
\* carries an error value (or data: null) is never answered with the body;
\* the attempt raises "DPD API Error <code>: <message>", whatever the shape
\* of the error value.
C25_LabelJsonErrorRaises ==
  ( /\ outcome # Pending
    /\ ProbeAccept \in LabelAccepts
    /\ probe.resp.status \in 200..299
    /\ probe.resp.body.parse = "json"
    /\ (probe.resp.body.error.shape # "undef" \/ probe.resp.body.data = "null") )
  => /\ outcome.act = "throw"
     /\ outcome.msg.parts[1] = "DPD API Error "

\* the call in slot p, made with retry = false, is a single attempt: one
\* getGeoSession call (a cached token or one exchange), at most one business
\* call, no wait, no 401 branch, and it raises exactly when that attempt failed
SingleAttempt(p) ==
  LET c == call[p]
      lg == log[p]
  IN /\ c.attempt = 0
     /\ Len(AuthSeq(lg)) <= 1
     /\ Len(BizSeq(lg)) <= 1
     /\ Len(DelaySeq(lg)) = 0
     /\ \A i \in 1..Len(lg) : lg[i].e = "biz" => (lg[i].act # "retry401" /\ ~lg[i].cacheEmpty)
     /\ pc[p] # "done" => Failures(lg) = 0
     /\ pc[p] = "done" =>
          /\ Len(AuthSeq(lg)) + Len(HitSeq(lg)) = 1
          /\ AttemptFailed(lg[Len(lg)]) <=> c.res.kind = "error"
          /\ c.res.kind \in {"value", "error"}

\* a step taken while the call in slot p runs with retry = false never
\* empties the cache
KeepsSession(p) ==
  (call[p].op = "authenticatedRequest" /\ ~call[p].retry)
     => (tokenCache' = tokenCache \/ tokenCache'.geoSession # NoTok)

\* C26 as claimed: with retry = false authenticatedRequest makes exactly one
\* attempt whatever retryAttempts is, waits for no delay, does not clear the
\* cached session and raises the first failure, a 401 included.
C26_SingleAttemptAnyBudget ==
  /\ [](\A p \in Procs :
          (call[p].op = "authenticatedRequest" /\ ~call[p].retry) => SingleAttempt(p))
  /\ [][\A p \in Procs : KeepsSession(p)]_vars

\* C26: with retry = false and retryAttempts >= 1 authenticatedRequest makes
\* exactly one attempt (at most one credential exchange and one business
\* call), waits for no delay, does not clear the cached session and raises
\* the first failure, a 401 included.
C26_SingleAttempt ==
  /\ [](\A p \in Procs :
          (call[p].op = "authenticatedRequest" /\ ~call[p].retry
             /\ call[p].retryAttempts >= 1) => SingleAttempt(p))
  /\ [][\A p \in Procs : KeepsSession(p)]_vars

\* a call with retry = false and four attempts allowed was answered 401 and
\* raised at once; the cache still holds the token it sent
C26_Witness ==
  \E p \in Procs :
    /\ call[p].op = "authenticatedRequest"
    /\ ~call[p].retry
    /\ call[p].retryAttempts = 4
    /\ call[p].headers = NoHeaders
    /\ pc[p] = "done"
    /\ call[p].res.kind = "error"
    /\ Len(BizSeq(log[p])) = 1
    /\ BizSeq(log[p])[1].status = 401
    /\ tokenCache.geoSession = BizSeq(log[p])[1].tok
    /\ tokenCache.geoSession # NoTok

\* C29: in both retry loops a wait only ever follows a failed attempt, so
\* none precedes the first attempt, and a finished call never ends on a
\* wait; getValidGeoSession failing maxRetries times has waited
\* maxRetries - 1 times, authenticatedRequest failing retryAttempts (>= 1)
\* times has waited retryAttempts - 1 times, and a call that succeeds on its
\* k-th attempt ends with that attempt, after k - 1 failures and k - 1 waits.
C29_NoWaitAfterFinal ==
  \A p \in Procs :
    LET lg == log[p]
        c == call[p]
        A == AuthSeq(lg)
        D == DelaySeq(lg)
    IN /\ c.op \in {"authenticatedRequest", "getValidGeoSession"} =>
            /\ \A i \in 1..Len(lg) :
                 lg[i].e = "delay" => (i > 1 /\ AttemptFailed(lg[i - 1]))
            /\ Len(D) <= Failures(lg)
            /\ pc[p] = "done" => (Len(lg) > 0 /\ lg[Len(lg)].e # "delay")
       /\ (c.op = "getValidGeoSession" /\ pc[p] = "done") =>
            /\ c.res.kind = "error" =>
                 (Failures(lg) = mgr.maxRetries /\ Len(D) = mgr.maxRetries - 1)
            /\ (c.res.kind = "value" /\ Len(A) > 0) =>
                 /\ lg[Len(lg)].e = "auth" /\ lg[Len(lg)].ok
                 /\ Failures(lg) = Len(A) - 1
                 /\ Len(D) = Len(A) - 1
       /\ (c.op = "authenticatedRequest" /\ pc[p] = "done") =>
            /\ (Failures(lg) = c.retryAttempts /\ c.retryAttempts >= 1) =>
                 Len(D) = c.retryAttempts - 1
            /\ c.res.kind = "value" =>
                 /\ lg[Len(lg)].e = "biz" /\ lg[Len(lg)].act = "return"
                 /\ Failures(lg) = c.attempt
                 /\ Len(D) = c.attempt

\* a call of authenticatedRequest failed four times out of four and waited
\* three times; its log ends with the fourth failure
C29_Witness ==
  \E p \in Procs :
    /\ call[p].op = "authenticatedRequest"
    /\ call[p].retryAttempts = 4
    /\ pc[p] = "done"
    /\ call[p].res.kind = "error"
    /\ Failures(log[p]) = 4
    /\ Len(DelaySeq(log[p])) = 3
    /\ AttemptFailed(log[p][Len(log[p])])

\* the hard-expiry check alone: a token is present and expiresAt > now
HardExpiryCheck(present, expiry, t) == present /\ expiry # NoExpiry /\ expiry > t

\* C28: whatever the store holds and whatever the time is, isSessionValid
\* gives the result of the hard-expiry check alone; getValidGeoSession
\* serves the stored token exactly when a token is stored and its expiry
\* lies in the future, and starts a credential exchange otherwise.
C28_StalenessNeverDecides ==
  /\ isSessionValid(storage.geoSession # NoTok, storage.expiry, now)
       = HardExpiryCheck(storage.geoSession # NoTok, storage.expiry, now)
  /\ \A p \in Procs :
       (call[p].op = "getValidGeoSession" /\ Len(log[p]) >= 1) =>
          LET found == log[p][1]
          IN (Len(HitSeq(log[p])) = 1)
               <=> HardExpiryCheck(found.tok # NoTok, found.expiry, now)

\* a session that expires later on the second day is served at a time of
\* that day past noon
C28_Witness ==
  \E p \in Procs :
    /\ call[p].op = "getValidGeoSession"
    /\ pc[p] = "done"
    /\ Len(HitSeq(log[p])) = 1
    /\ StartOfDay(log[p][1].expiry) = StartOfDay(now)
    /\ now - StartOfDay(now) > StaleAfter
    /\ now >= DayLength

====
